---- MODULE Spec2Model ----
(***************************************************************************)
(* FrequencyGenerator (ATmega32U4 Timer 4 square-wave generator).          *)
(*                                                                         *)
(* The state is the stored frequency _FreqGenVal, the Timer 4 / PLL        *)
(* registers that FrequencyGenerator::set writes, the mode of the output   *)
(* pin, and a record of the call that has just returned (its argument,     *)
(* its return value and the result of its divisor search), of the call     *)
(* before it and of the first set(Freq > 0) of the run.                    *)
(* One step is one complete call of read() or set(Freq).  StepSpec takes   *)
(* set apart into its register writes, one write per step.                 *)
(***************************************************************************)
EXTENDS Integers, Sequences, FiniteSets, TLC

VARIABLES
    FreqGenVal,   \* long _FreqGenVal
    TCCR4A,       \* Timer 4 control register A
    TCCR4B,       \* Timer 4 control register B (prescaler select CS43:0)
    TCCR4D,       \* Timer 4 control register D (waveform mode)
    PLLFRQ,       \* PLL frequency register (PLLTM1:0 in bits 5:4)
    TC4H,         \* shared high byte for the 10-bit registers (TCNT4H)
    OCR4C,        \* 10-bit TOP value (TC4H:OCR4C)
    OCR4A,        \* 10-bit compare value (TC4H:OCR4A)
    pinMode5,     \* mode of Arduino pin 5 (PC6)
    call,         \* the call that has just returned (sv: result of its search)
    prev,         \* the call before it
    lastOk,       \* return value of the latest set(0) or successful set(>0)
    first,        \* the first set(Freq>0) call of the run
    run           \* the set call in progress (step-wise specification only)

hw == <<TCCR4A, TCCR4B, TCCR4D, PLLFRQ, TC4H, OCR4C, OCR4A, pinMode5>>

vars == <<FreqGenVal, TCCR4A, TCCR4B, TCCR4D, PLLFRQ, TC4H, OCR4C, OCR4A,
          pinMode5, call, prev, lastOk, first, run>>

----------------------------------------------------------------------------
(* Program constants *)

F_CPU == 16000000

CKM == <<1, 6, 4, 3>>

SizeofCKM == Len(CKM)

LongMax == 2147483647

UnsignedMax == 65535

MaxLg == 14

MinCnt == 4

MaxCnt == 1023

ExcludedPll == 1

PllFrqBase == 74

TCCR4AToggle == 66

----------------------------------------------------------------------------
(* Bounds of the model: the arguments the calls are made with *)

NumTargets == 13

NumNegatives == 2

TargetList == <<1000000, 50000000, 14300000, 13714286, 9600000, 1,
                1050000, 18285714, 18285715, 440, 3579545, 12000000,
                16000000, 2147483647, 11300000, 1280000, 15640, 15632>>

Targets == { TargetList[k] : k \in 1..NumTargets }

Negatives == { -k : k \in 1..NumNegatives }

SetArgs == Targets \cup {0} \cup Negatives

(* The arguments of the sweep of first calls: every listed target, and    *)
(* for every clock, shift and count boundary (twice the count k) the      *)
(* frequencies within SweepDelta of 2 CK / (2^s k), where the rounded     *)
(* count changes.                                                         *)

SweepDelta == 1

SweepShifts == 0..MaxLg

HalfCounts == {7, 8, 9, 25, 199, 200, 201, 1875, 1999, 2000, 2001,
               2045, 2046, 2047, 2048}

SweepArgs ==
    {f \in {(2 * F_CPU * CKM[m]) \div ((2 ^ sh) * k) + d :
               m \in 1..Len(CKM), sh \in SweepShifts, k \in HalfCounts,
               d \in (-SweepDelta)..SweepDelta} : f > 0}
    \cup {TargetList[k] : k \in 1..Len(TargetList)}

----------------------------------------------------------------------------
(* Integer arithmetic of the AVR build: long is 32 bit, unsigned is 16 bit *)

Pow2(n) == 2 ^ n

ToUnsigned(x) == x % 65536

TruncDiv(a, b) == IF a >= 0 THEN a \div b ELSE -((-a) \div b)

Abs(x) == IF x < 0 THEN -x ELSE x

----------------------------------------------------------------------------
(* FrequencyGenerator::set, the divisor search (one pass of the for loop) *)

ClockOf(pll) == F_CPU * CKM[pll + 1]

RECURSIVE Halve(_, _)
Halve(CV, lg) == IF CV > 1 THEN Halve(CV \div 2, lg + 1) ELSE lg

Log2Floor(CV) == IF CV # 0 THEN Halve(CV, 0) ELSE 0

Log2Of(CV) == IF CV # 0 THEN Halve(CV, 0) + 1 ELSE 0

ShiftOf(pll, Freq) == Log2Of((ClockOf(pll) \div Freq) \div 1024)

IgnoredNone(pll, lg) == lg > MaxLg

IgnoredAtMaxLg(pll, lg) == pll = ExcludedPll \/ lg >= MaxLg

Ignored(pll, lg) == pll = ExcludedPll \/ lg > MaxLg

CountTruncated(pll, lg, Freq) ==
    ToUnsigned((ClockOf(pll) \div Pow2(lg)) \div Freq)

CountOf(pll, lg, Freq) ==
    ToUnsigned(((((ClockOf(pll) * 2) \div Pow2(lg)) \div Freq) + 1) \div 2)

CntOutOfRangeLoose(cnt) == cnt < MinCnt - 1 \/ cnt > MaxCnt

CntOutOfRangeTight(cnt) == cnt <= MinCnt \/ cnt >= MaxCnt

CntOutOfRange(cnt) == cnt < MinCnt \/ cnt > MaxCnt

DifOf(pll, lg, cnt, Freq) ==
    Abs(TruncDiv(ClockOf(pll) - (Pow2(lg) * cnt) * Freq, CKM[pll + 1]))

SmallerOrSame(dif, svDIF) == dif <= svDIF

Smaller(dif, svDIF) == dif < svDIF

Locals == [svPLL |-> 0, svLG |-> 0, svCNT |-> 0, svDIF |-> 0]

Body(pll, sv, Freq) ==
    LET lg == ShiftOf(pll, Freq)
    IN  IF Ignored(pll, lg) THEN sv
        ELSE LET cnt == CountOf(pll, lg, Freq)
             IN  IF CntOutOfRange(cnt) THEN sv
                 ELSE LET dif == DifOf(pll, lg, cnt, Freq)
                      IN  IF Smaller(dif, sv.svDIF)
                          THEN [svPLL |-> pll, svLG |-> lg,
                                svCNT |-> cnt, svDIF |-> dif]
                          ELSE sv

RECURSIVE Loop(_, _, _)
Loop(pll, sv, Freq) ==
    IF pll < SizeofCKM THEN Loop(pll + 1, Body(pll, sv, Freq), Freq) ELSE sv

SearchKeepsBest(Freq) ==
    Loop(0, IF call.op = "set" /\ call.Freq > 0 /\ call.ret # -1
            THEN call.sv ELSE [Locals EXCEPT !.svDIF = LongMax], Freq)

Search(Freq) == Loop(0, [Locals EXCEPT !.svDIF = LongMax], Freq)

FoundInexact(sv) == sv.svDIF # 0 /\ sv.svDIF < LongMax

Found(sv) == sv.svDIF < LongMax

ActualFreqTruncated(sv) ==
    (F_CPU * CKM[sv.svPLL + 1]) \div (Pow2(sv.svLG) * sv.svCNT)

ActualFreq(sv) ==
    ((((F_CPU * CKM[sv.svPLL + 1]) * 2) \div (Pow2(sv.svLG) * sv.svCNT)) + 1)
        \div 2

----------------------------------------------------------------------------
(* FrequencyGenerator::set, the register writes *)

SelectBits(svPLL) == (svPLL % 4) * 16

CompareValue(svCNT) == ToUnsigned((svCNT \div 2) - 1)

TopValueNoDec(svCNT) == svCNT

TopValue(svCNT) == ToUnsigned(svCNT - 1)

HighByte(v) == (v \div 256) % 256

LowByte(v) == v % 256

TenBitLowOnly(high, low) == low

TenBit(high, low) == (high % 4) * 256 + low

PrescalerSelect(svLG) == (svLG + 1) % 16

ShutDownKeepsPin ==
    /\ TCCR4D' = 0
    /\ TCCR4A' = 0
    /\ TCCR4B' = 0
    /\ UNCHANGED <<pinMode5, PLLFRQ, TC4H, OCR4C, OCR4A>>

ShutDown ==
    /\ TCCR4D' = 0
    /\ TCCR4A' = 0
    /\ TCCR4B' = 0
    /\ pinMode5' = "INPUT_PULLUP"
    /\ UNCHANGED <<PLLFRQ, TC4H, OCR4C, OCR4A>>

SetUp(sv) ==
    LET PS  == CompareValue(sv.svCNT)
        top == TopValue(sv.svCNT)
    IN  /\ TCCR4D' = 0
        /\ pinMode5' = "OUTPUT"
        /\ TCCR4A' = TCCR4AToggle
        /\ PLLFRQ' = PllFrqBase + SelectBits(sv.svPLL)
        /\ OCR4C' = TenBit(HighByte(top), LowByte(top))
        /\ OCR4A' = TenBit(HighByte(PS), LowByte(PS))
        /\ TC4H' = HighByte(PS)
        /\ TCCR4B' = PrescalerSelect(sv.svLG)

Returned(Freq, ret, sv) ==
    [op |-> "set", Freq |-> Freq, ret |-> ret, sv |-> sv]

NoteFirst(Freq, ret, sv) ==
    IF Freq > 0 /\ first.op = "none" THEN Returned(Freq, ret, sv) ELSE first

SetQueryResets(Freq) ==
    /\ TCCR4D' = 0
    /\ call' = Returned(Freq, FreqGenVal, Locals)
    /\ prev' = call
    /\ UNCHANGED <<FreqGenVal, TCCR4A, TCCR4B, PLLFRQ, TC4H, OCR4C, OCR4A,
                   pinMode5, lastOk, first, run>>

SetQuery(Freq) ==
    /\ call' = Returned(Freq, FreqGenVal, Locals)
    /\ prev' = call
    /\ UNCHANGED <<FreqGenVal, hw, lastOk, first, run>>

SetFailStores(Freq, sv) ==
    /\ FreqGenVal' = -1
    /\ call' = Returned(Freq, -1, sv)
    /\ prev' = call
    /\ first' = NoteFirst(Freq, -1, sv)
    /\ UNCHANGED <<hw, lastOk, run>>

SetFailResets(Freq, sv) ==
    /\ TCCR4D' = 0
    /\ call' = Returned(Freq, -1, sv)
    /\ prev' = call
    /\ first' = NoteFirst(Freq, -1, sv)
    /\ UNCHANGED <<FreqGenVal, TCCR4A, TCCR4B, PLLFRQ, TC4H, OCR4C, OCR4A,
                   pinMode5, lastOk, run>>

SetFail(Freq, sv) ==
    /\ call' = Returned(Freq, -1, sv)
    /\ prev' = call
    /\ first' = NoteFirst(Freq, -1, sv)
    /\ UNCHANGED <<FreqGenVal, hw, lastOk, run>>

SetApply(Freq, val, sv) ==
    /\ FreqGenVal' = val
    /\ IF val = 0 THEN ShutDown ELSE SetUp(sv)
    /\ call' = Returned(Freq, val, sv)
    /\ prev' = call
    /\ lastOk' = [kind |-> IF Freq = 0 THEN "off" ELSE "on", ret |-> val]
    /\ first' = NoteFirst(Freq, val, sv)
    /\ UNCHANGED run

Set(Freq) ==
    IF Freq < 0 THEN SetQuery(Freq)
    ELSE IF Freq = 0 THEN SetApply(Freq, 0, Locals)
    ELSE LET sv == Search(Freq)
         IN  IF Found(sv) THEN SetApply(Freq, ActualFreq(sv), sv)
             ELSE SetFail(Freq, sv)

----------------------------------------------------------------------------
(* FrequencyGenerator::read *)

Read ==
    /\ call' = [op |-> "read", Freq |-> 0, ret |-> FreqGenVal, sv |-> Locals]
    /\ prev' = call
    /\ UNCHANGED <<FreqGenVal, hw, lastOk, first, run>>

----------------------------------------------------------------------------
(* The generator object after construction; Timer 4 as the Arduino core's *)
(* init() leaves it, PLLFRQ as after power-up or after a code download.   *)

NoCall == [op |-> "none", Freq |-> 0, ret |-> 0, sv |-> Locals]

Idle == [pc |-> "idle", Freq |-> 0, ret |-> 0, sv |-> Locals, todo |-> <<>>]

Init ==
    /\ FreqGenVal = 0
    /\ TCCR4A = 2
    /\ TCCR4B = 7
    /\ TCCR4D = 1
    /\ PLLFRQ \in {4, 74}
    /\ TC4H = 0
    /\ OCR4C = 255
    /\ OCR4A = 0
    /\ pinMode5 = "INPUT"
    /\ call = NoCall
    /\ prev = NoCall
    /\ lastOk = [kind |-> "none", ret |-> 0]
    /\ first = NoCall
    /\ run = Idle

SetCall == \E Freq \in SetArgs : Set(Freq)

Next == Read \/ SetCall

Spec == Init /\ [][Next]_vars

(* The sweep: the first call made on the generator is set(Freq) *)

FirstSet == call.op = "none" /\ \E Freq \in SweepArgs : Set(Freq)

SweepNext == FirstSet

SweepSpec == Init /\ [][SweepNext]_vars

----------------------------------------------------------------------------
(* FrequencyGenerator::set step by step: the computation up to the store  *)
(* of _FreqGenVal is one step, then every register write is one step, in  *)
(* program order, then the return.                                        *)

NumStepTargets == 6

StepArgs == {TargetList[k] : k \in 1..NumStepTargets} \cup {0, -1}

Write(reg, val) == [reg |-> reg, val |-> val]

ShutDownWrites ==
    << Write("TCCR4D", 0), Write("TCCR4A", 0), Write("TCCR4B", 0),
       Write("pinMode5", "INPUT_PULLUP") >>

SetUpWritesRunFirst(sv) ==
    << Write("TCCR4D", 0),
       Write("pinMode5", "OUTPUT"),
       Write("TCCR4A", TCCR4AToggle),
       Write("TCCR4B", PrescalerSelect(sv.svLG)),
       Write("PLLFRQ", PllFrqBase + SelectBits(sv.svPLL)),
       Write("TC4H", HighByte(TopValue(sv.svCNT))),
       Write("OCR4C", LowByte(TopValue(sv.svCNT))),
       Write("TC4H", HighByte(CompareValue(sv.svCNT))),
       Write("OCR4A", LowByte(CompareValue(sv.svCNT))) >>

SetUpWrites(sv) ==
    << Write("TCCR4D", 0),
       Write("pinMode5", "OUTPUT"),
       Write("TCCR4A", TCCR4AToggle),
       Write("PLLFRQ", PllFrqBase + SelectBits(sv.svPLL)),
       Write("TC4H", HighByte(TopValue(sv.svCNT))),
       Write("OCR4C", LowByte(TopValue(sv.svCNT))),
       Write("TC4H", HighByte(CompareValue(sv.svCNT))),
       Write("OCR4A", LowByte(CompareValue(sv.svCNT))),
       Write("TCCR4B", PrescalerSelect(sv.svLG)) >>

WritesFor(val, sv) == IF val = 0 THEN ShutDownWrites ELSE SetUpWrites(sv)

Apply(w) ==
    /\ TCCR4D' = IF w.reg = "TCCR4D" THEN w.val ELSE TCCR4D
    /\ TCCR4A' = IF w.reg = "TCCR4A" THEN w.val ELSE TCCR4A
    /\ TCCR4B' = IF w.reg = "TCCR4B" THEN w.val ELSE TCCR4B
    /\ PLLFRQ' = IF w.reg = "PLLFRQ" THEN w.val ELSE PLLFRQ
    /\ TC4H' = IF w.reg = "TC4H" THEN w.val ELSE TC4H
    /\ OCR4C' = IF w.reg = "OCR4C" THEN TenBit(TC4H, w.val) ELSE OCR4C
    /\ OCR4A' = IF w.reg = "OCR4A" THEN TenBit(TC4H, w.val) ELSE OCR4A
    /\ pinMode5' = IF w.reg = "pinMode5" THEN w.val ELSE pinMode5

Running(pc, Freq, ret, sv, todo) ==
    [pc |-> pc, Freq |-> Freq, ret |-> ret, sv |-> sv, todo |-> todo]

Enter(Freq) ==
    /\ run.pc = "idle"
    /\ IF Freq < 0
       THEN /\ run' = Running("return", Freq, FreqGenVal, Locals, <<>>)
            /\ UNCHANGED FreqGenVal
       ELSE IF Freq = 0
       THEN /\ FreqGenVal' = 0
            /\ run' = Running("write", Freq, 0, Locals, WritesFor(0, Locals))
       ELSE LET sv == Search(Freq)
            IN  IF Found(sv)
                THEN /\ FreqGenVal' = ActualFreq(sv)
                     /\ run' = Running("write", Freq, ActualFreq(sv), sv,
                                       WritesFor(ActualFreq(sv), sv))
                ELSE /\ run' = Running("return", Freq, -1, sv, <<>>)
                     /\ UNCHANGED FreqGenVal
    /\ UNCHANGED <<hw, call, prev, lastOk, first>>

WriteStep ==
    /\ run.pc = "write"
    /\ run.todo # <<>>
    /\ Apply(Head(run.todo))
    /\ run' = [run EXCEPT !.todo = Tail(run.todo)]
    /\ UNCHANGED <<FreqGenVal, call, prev, lastOk, first>>

Return ==
    /\ \/ run.pc = "return"
       \/ run.pc = "write" /\ run.todo = <<>>
    /\ call' = Returned(run.Freq,
                        IF run.pc = "write" THEN FreqGenVal ELSE run.ret,
                        run.sv)
    /\ prev' = call
    /\ lastOk' = IF run.pc = "write"
                 THEN [kind |-> IF run.Freq = 0 THEN "off" ELSE "on",
                       ret |-> FreqGenVal]
                 ELSE lastOk
    /\ first' = NoteFirst(run.Freq,
                          IF run.pc = "write" THEN FreqGenVal ELSE run.ret,
                          run.sv)
    /\ run' = Idle
    /\ UNCHANGED <<FreqGenVal, hw>>

EnterCall == \E Freq \in StepArgs : Enter(Freq)

IdleRead == run.pc = "idle" /\ Read

StepNext == EnterCall \/ WriteStep \/ Return \/ IdleRead

StepSpec == Init /\ [][StepNext]_vars

----------------------------------------------------------------------------
(* Exact comparison of output frequencies.  The frequency of a divisor    *)
(* setting is the rational CK / (2^s * c); its distance to the target is  *)
(* kept as a mixed number int + num/den, and fractions are compared by    *)
(* the Euclidean algorithm so that no product leaves the integer range.   *)

RECURSIVE FracLess(_, _, _, _)
FracLess(a, b, c, d) ==
    LET qa == a \div b
        qc == c \div d
        ra == a % b
        rc == c % d
    IN  IF qa # qc THEN qa < qc
        ELSE IF rc = 0 THEN FALSE
        ELSE IF ra = 0 THEN TRUE
        ELSE FracLess(d, rc, b, ra)

Distance(pll, s, c, Freq) ==
    LET d == Pow2(s) * c
        q == ClockOf(pll) \div d
        r == ClockOf(pll) % d
    IN  IF q >= Freq THEN [int |-> q - Freq, num |-> r, den |-> d]
        ELSE IF r = 0 THEN [int |-> Freq - q, num |-> 0, den |-> d]
        ELSE [int |-> Freq - q - 1, num |-> d - r, den |-> d]

DistLess(x, y) ==
    \/ x.int < y.int
    \/ x.int = y.int /\ FracLess(x.num, x.den, y.num, y.den)

UsablePll == {pll \in 0..(SizeofCKM - 1) : pll # ExcludedPll}

SetSucceeded == call.op = "set" /\ call.Freq > 0 /\ call.ret # -1

SetFailed == call.op = "set" /\ call.Freq > 0 /\ call.ret = -1

----------------------------------------------------------------------------
(* C1: after a successful set(f), f > 0, no feasible setting (clock index *)
(* 0, 2 or 3, shift 0..14, count 4..1023) has an exact output frequency   *)
(* strictly closer to f than the applied setting has.                     *)
C1_ClosestFrequency ==
    SetSucceeded =>
        LET applied == Distance(call.sv.svPLL, call.sv.svLG, call.sv.svCNT,
                                call.Freq)
        IN  \A pll \in UsablePll : \A s \in 0..MaxLg : \A c \in MinCnt..MaxCnt :
                ~DistLess(Distance(pll, s, c, call.Freq), applied)

----------------------------------------------------------------------------
(* What the registers say about the running setting *)

SelectedPll == (PLLFRQ \div 16) % 4

Passing(Freq) ==
    {pll \in 0..(SizeofCKM - 1) :
        /\ ~Ignored(pll, ShiftOf(pll, Freq))
        /\ ~CntOutOfRange(CountOf(pll, ShiftOf(pll, Freq), Freq))}

Score(pll, Freq) ==
    DifOf(pll, ShiftOf(pll, Freq), CountOf(pll, ShiftOf(pll, Freq), Freq), Freq)

----------------------------------------------------------------------------
(* C2: after a successful set(f), f > 0, the clock source programmed into *)
(* the clock-source select passed the shift check and the count check,    *)
(* has the minimum error score of all sources that passed both, and is    *)
(* the lowest index among the sources sharing that minimum.               *)
C2_MinimumScoreFirstWins ==
    SetSucceeded =>
        /\ SelectedPll = call.sv.svPLL
        /\ SelectedPll \in Passing(call.Freq)
        /\ call.sv.svDIF = Score(SelectedPll, call.Freq)
        /\ \A pll \in Passing(call.Freq) :
              /\ Score(SelectedPll, call.Freq) <= Score(pll, call.Freq)
              /\ Score(pll, call.Freq) = Score(SelectedPll, call.Freq)
                    => SelectedPll <= pll

C2_TieWitness ==
    /\ SetSucceeded
    /\ Cardinality({pll \in Passing(call.Freq) :
                      Score(pll, call.Freq) = call.sv.svDIF}) >= 2
    /\ SelectedPll = 0

(* C3: a set(f), f > 0, that returns -1 leaves the stored frequency and   *)
(* every hardware field as they were before the call.                     *)
C3_FailedSetChangesNothing ==
    [][(call'.op = "set" /\ call'.Freq > 0 /\ call'.ret = -1)
          => (FreqGenVal' = FreqGenVal /\ hw' = hw)]_vars

C3_FailAfterSuccessWitness ==
    /\ SetFailed
    /\ call.Freq = 50000000
    /\ prev.op = "set" /\ prev.Freq = 1000000 /\ prev.ret = 1000000
    /\ FreqGenVal = prev.ret
    /\ pinMode5 = "OUTPUT"

(* C4: set(f), f > 0, returns -1 exactly when no clock source passes the  *)
(* shift check and the count check, and returns a value >= 1 otherwise.   *)
C4_SentinelIffNoCandidate ==
    (call.op = "set" /\ call.Freq > 0) =>
        /\ call.ret = -1 <=> Passing(call.Freq) = {}
        /\ call.ret # -1 => call.ret >= 1

C4_BothOutcomesWitness ==
    /\ SetSucceeded
    /\ call.ret = 1
    /\ prev.op = "set" /\ prev.Freq > 0 /\ prev.ret = -1
    /\ Passing(prev.Freq) = {}

(* C5: set(f), f < 0, returns the stored frequency, runs no search, and   *)
(* changes neither the stored frequency nor any hardware field.           *)
C5_NegativeSetIsQuery ==
    [][(call'.op = "set" /\ call'.Freq < 0)
          => /\ call'.ret = FreqGenVal
             /\ call'.sv = Locals
             /\ FreqGenVal' = FreqGenVal
             /\ hw' = hw]_vars

C5_QueryWhileActiveWitness ==
    /\ call.op = "set" /\ call.Freq < 0 /\ call.ret > 0
    /\ prev.op = "set" /\ prev.Freq > 0 /\ prev.ret = call.ret
    /\ FreqGenVal = call.ret
    /\ pinMode5 = "OUTPUT"

(* C6: set(0) returns 0, stores 0, stops the timer (control registers A   *)
(* and B written to 0) and makes the output pin an input.                 *)
C6_SetZeroShutsDown ==
    (call.op = "set" /\ call.Freq = 0) =>
        /\ call.ret = 0
        /\ FreqGenVal = 0
        /\ TCCR4A = 0
        /\ TCCR4B = 0
        /\ TCCR4D = 0
        /\ pinMode5 = "INPUT_PULLUP"

C6_AfterFailedSetWitness ==
    /\ call.op = "set" /\ call.Freq = 0 /\ call.ret = 0
    /\ prev.op = "set" /\ prev.Freq > 0 /\ prev.ret = -1
    /\ lastOk.kind = "off"
    /\ first.ret > 0

(* C7: while the latest state-changing call is a successful set(f),       *)
(* f > 0, the stored frequency is the value that call returned, and every *)
(* read() returns exactly that value, also after reads, set(negative) and *)
(* failed set calls.                                                      *)
C7_ReadReturnsWhatSetReturned ==
    lastOk.kind = "on" =>
        /\ FreqGenVal = lastOk.ret
        /\ call.op = "read" => call.ret = lastOk.ret
        /\ SetSucceeded => call.ret = lastOk.ret

C7_ReadAfterFailedSetWitness ==
    /\ lastOk.kind = "on"
    /\ call.op = "read" /\ call.ret = lastOk.ret /\ call.ret > 0
    /\ prev.op = "set" /\ prev.Freq > 0 /\ prev.ret = -1

(* C8: whenever the stored frequency is > 0 it is the round-half-up       *)
(* integer of F_CPU x CKM[clock-source select] / (2^(prescaler select-1)  *)
(* x (reload-top + 1)) for the registers as they stand, and so lies       *)
(* within half a unit of that exact frequency.                            *)
C8_StoredIsRegisterFrequency ==
    FreqGenVal > 0 =>
        /\ TCCR4B >= 1
        /\ FreqGenVal =
             (((ClockOf(SelectedPll) * 2)
                  \div (Pow2(TCCR4B - 1) * (OCR4C + 1))) + 1) \div 2
        /\ LET off == Distance(SelectedPll, TCCR4B - 1, OCR4C + 1, FreqGenVal)
           IN  off.int = 0 /\ 2 * off.num <= off.den

C8_InexactWitness ==
    /\ FreqGenVal > 0
    /\ TCCR4B > 1
    /\ OCR4C > 255
    /\ Distance(SelectedPll, TCCR4B - 1, OCR4C + 1, FreqGenVal).num # 0
    /\ SetFailed

C10_ExcludedNeverSelected == SelectedPll # ExcludedPll

C10_ExcludedWouldWinWitness ==
    /\ SetSucceeded
    /\ ShiftOf(ExcludedPll, call.Freq) <= MaxLg
    /\ ~CntOutOfRange(CountOf(ExcludedPll, ShiftOf(ExcludedPll, call.Freq),
                              call.Freq))
    /\ \A pll \in Passing(call.Freq) :
          Score(ExcludedPll, call.Freq) < Score(pll, call.Freq)
    /\ SelectedPll = call.sv.svPLL

----------------------------------------------------------------------------
(* The candidates of the search of the call that has just returned *)

Checked(Freq) == {pll \in UsablePll : ShiftOf(pll, Freq) <= MaxLg}

CountAt(pll, Freq) == CountOf(pll, ShiftOf(pll, Freq), Freq)

(* C11: every setting applied by a successful set(f), f > 0, has shift in *)
(* 0..14 and count in 4..1023 (in the locals and in the registers); a     *)
(* clock whose rounded count is exactly 4 or 1023 is kept as a candidate  *)
(* (the set succeeds with an error score no larger than that clock's),    *)
(* and a clock whose rounded count is 3 or 1024 is never applied.         *)
C11_CountAndShiftRange ==
    (call.op = "set" /\ call.Freq > 0) =>
        /\ call.ret # -1 =>
              /\ call.sv.svLG \in 0..14
              /\ call.sv.svCNT \in 4..1023
              /\ TCCR4B - 1 \in 0..14
              /\ OCR4C + 1 \in 4..1023
        /\ \A pll \in Checked(call.Freq) :
              /\ CountAt(pll, call.Freq) \in {4, 1023} =>
                    /\ call.ret # -1
                    /\ call.sv.svDIF <= Score(pll, call.Freq)
              /\ CountAt(pll, call.Freq) \in {3, 1024} =>
                    ~(call.ret # -1 /\ call.sv.svPLL = pll)
        /\ (\A pll \in Checked(call.Freq) :
                  CountAt(pll, call.Freq) \in {3, 1024}) => call.ret = -1

C11_FourKeptThreeRejectedWitness ==
    /\ SetSucceeded
    /\ call.sv.svCNT = 4
    /\ \E pll \in Checked(call.Freq) : CountAt(pll, call.Freq) = 3
    /\ OCR4C = 3

(* C12: a successful set(f), f > 0, with winning count c, shift s and     *)
(* clock index i leaves reload-top = c - 1, compare = (c div 2) - 1,      *)
(* clock-source select = i and prescaler select = s + 1; and whenever the *)
(* generator is active, reload-top is in 3..1022, compare is in 1..510    *)
(* and compare < reload-top.                                              *)
C12_RegistersProgrammed ==
    /\ SetSucceeded =>
          /\ OCR4C = call.sv.svCNT - 1
          /\ OCR4A = (call.sv.svCNT \div 2) - 1
          /\ SelectedPll = call.sv.svPLL
          /\ TCCR4B = call.sv.svLG + 1
    /\ FreqGenVal > 0 =>
          /\ OCR4C \in 3..1022
          /\ OCR4A \in 1..510
          /\ OCR4A < OCR4C

C12_TenBitValuesWitness ==
    /\ SetSucceeded
    /\ OCR4C > 255 /\ OCR4A > 255
    /\ TCCR4B = 15
    /\ prev.op = "set" /\ prev.ret > 0 /\ prev.sv.svCNT = 4

(* C13: in every setting applied by a successful set(f), f > 0, the       *)
(* compare value plus one is exactly half of the reload-top plus one      *)
(* (50% duty cycle).                                                      *)
C13_HalfDuty ==
    FreqGenVal > 0 => 2 * (OCR4A + 1) = OCR4C + 1

(* The largest target for which some usable clock still rounds to the     *)
(* minimum count: 64 MHz / 3.5                                            *)
FeasibleCeiling == (2 * F_CPU * CKM[3]) \div (2 * MinCnt - 1)

(* C14: the feasible targets are one interval starting at 1: set(f),      *)
(* f > 0, succeeds exactly when f <= FeasibleCeiling, and the ceiling is  *)
(* at least 12,000,000.                                                   *)
C14_FeasibleInterval ==
    /\ FeasibleCeiling >= 12000000
    /\ (call.op = "set" /\ call.Freq > 0) =>
          (call.ret # -1 <=> call.Freq <= FeasibleCeiling)

C14_NoHoleWitness ==
    /\ SetSucceeded
    /\ call.Freq < FeasibleCeiling
    /\ Cardinality({pll \in Checked(call.Freq) :
                       CountAt(pll, call.Freq) = 1024}) >= 2

(* C15: the stored frequency and every value returned by set or read      *)
(* never exceed the crystal clock rate, 16,000,000.                       *)
C15_NeverAboveCrystal ==
    /\ FreqGenVal <= F_CPU
    /\ call.ret <= F_CPU
    /\ lastOk.ret <= F_CPU

C15_CrystalRateWitness ==
    /\ SetSucceeded
    /\ call.Freq > F_CPU
    /\ call.ret = F_CPU
    /\ FreqGenVal = F_CPU

(* C16: the generator starts DISABLED (stored value 0); the stored value  *)
(* is never negative, so read() never returns -1; read(), set(f < 0) and  *)
(* a failed set(f > 0) leave the stored value as it is (read() leaves     *)
(* the registers too), set(0) makes it 0 and a successful set(f > 0)      *)
(* makes it the returned value, which is > 0.                             *)
C16_TwoStateMachine ==
    /\ FreqGenVal = 0
    /\ [](FreqGenVal >= 0 /\ (call.op = "read" => call.ret >= 0))
    /\ [][/\ call'.op = "read" =>
                (FreqGenVal' = FreqGenVal /\ hw' = hw /\ call'.ret = FreqGenVal)
          /\ (call'.op = "set" /\ call'.Freq < 0) => FreqGenVal' = FreqGenVal
          /\ (call'.op = "set" /\ call'.Freq = 0) => FreqGenVal' = 0
          /\ (call'.op = "set" /\ call'.Freq > 0 /\ call'.ret = -1) =>
                FreqGenVal' = FreqGenVal
          /\ (call'.op = "set" /\ call'.Freq > 0 /\ call'.ret # -1) =>
                (FreqGenVal' = call'.ret /\ FreqGenVal' > 0)]_vars

C16_RetuneWitness ==
    /\ SetSucceeded
    /\ prev.op = "set" /\ prev.Freq > 0 /\ prev.ret > 0
    /\ prev.ret # call.ret
    /\ first.ret = -1
    /\ FreqGenVal = call.ret

----------------------------------------------------------------------------
(* The divisor estimate of a clock, CV = CK / Freq / 1024 *)

EstimateOf(pll, Freq) == (ClockOf(pll) \div Freq) \div 1024

AllPll == 0..(SizeofCKM - 1)

(* C17: for every clock source and f > 0 the shift found by the halving   *)
(* loop is the smallest s >= 0 with 2^s > CV (0 when CV = 0), and it is   *)
(* the smallest shift for which CK div (2^s x f) is at most 1023.         *)
C17_ShiftIsCeilLog2 ==
    (call.op = "set" /\ call.Freq > 0) =>
        \A pll \in AllPll :
            LET CV == EstimateOf(pll, call.Freq)
                s  == ShiftOf(pll, call.Freq)
            IN  /\ s >= 0
                /\ Pow2(s) > CV
                /\ s > 0 => Pow2(s - 1) <= CV
                /\ CV = 0 => s = 0
                /\ ClockOf(pll) \div (Pow2(s) * call.Freq) <= 1023
                /\ s > 0 =>
                      ClockOf(pll) \div (Pow2(s - 1) * call.Freq) > 1023

C17_PowerOfTwoEstimateWitness ==
    /\ SetSucceeded
    /\ call.sv.svLG >= 8
    /\ EstimateOf(call.sv.svPLL, call.Freq) = Pow2(call.sv.svLG - 1)
    /\ \E pll \in AllPll : ShiftOf(pll, call.Freq) > call.sv.svLG

(* C18: for every clock source that passes the shift check and f > 0 the  *)
(* count is the integer nearest to CK / (PS x f), halves rounded up:      *)
(* (2c - 1) PS f <= 2 CK < (2c + 1) PS f; and it equals the count a       *)
(* single truncating division of 2 CK by PS x f would give.               *)
C18_CountIsNearest ==
    (call.op = "set" /\ call.Freq > 0) =>
        \A pll \in Checked(call.Freq) :
            LET PS == Pow2(ShiftOf(pll, call.Freq))
                c  == CountAt(pll, call.Freq)
            IN  /\ (2 * c - 1) * PS * call.Freq <= 2 * ClockOf(pll)
                /\ 2 * ClockOf(pll) < (2 * c + 1) * PS * call.Freq
                /\ c = (((2 * ClockOf(pll)) \div (PS * call.Freq)) + 1) \div 2

C18_ExactHalfWitness ==
    /\ SetSucceeded
    /\ \E pll \in Checked(call.Freq) :
          /\ ShiftOf(pll, call.Freq) > 0
          /\ (2 * CountAt(pll, call.Freq) - 1) * Pow2(ShiftOf(pll, call.Freq))
                * call.Freq = 2 * ClockOf(pll)
          /\ ~CntOutOfRange(CountAt(pll, call.Freq))

DistanceAt(pll, Freq) ==
    Distance(pll, ShiftOf(pll, Freq), CountAt(pll, Freq), Freq)

(* C19: for every f > 0 and any two candidates a, b that pass the shift   *)
(* and count checks, if the error score of a is smaller than that of b    *)
(* then the exact output frequency of a is at least as close to f as      *)
(* that of b.                                                             *)
C19_ScoreRanksLikeDeviation ==
    (call.op = "set" /\ call.Freq > 0) =>
        \A a \in Passing(call.Freq) : \A b \in Passing(call.Freq) :
            Score(a, call.Freq) < Score(b, call.Freq) =>
                ~DistLess(DistanceAt(b, call.Freq), DistanceAt(a, call.Freq))


----------------------------------------------------------------------------
(* Write order inside set (step-wise specification).                      *)

TimerRuns == TCCR4B # 0

InSetUp == run.pc = "write" /\ run.ret > 0

Configured(sv) ==
    /\ PLLFRQ = PllFrqBase + SelectBits(sv.svPLL)
    /\ OCR4C = TopValue(sv.svCNT)
    /\ OCR4A = CompareValue(sv.svCNT)

(* C20: within one successful set(f>0) the prescaler/run field TCCR4B is  *)
(* the last register written, after the clock-source select, the          *)
(* reload-top and the compare value, and each 10-bit value lands whole    *)
(* (its high byte is in place before its low byte is written); so when    *)
(* the call starts from the stopped state left by set(0), the timer never *)
(* runs during the call on anything but the complete new configuration.   *)
C20_RunFieldWrittenLast ==
    /\ [](InSetUp /\ lastOk.kind = "off" /\ TimerRuns
            => /\ Configured(run.sv)
               /\ TCCR4B = PrescalerSelect(run.sv.svLG)
               /\ run.todo = <<>>)
    /\ [][InSetUp
            => /\ (TCCR4B' # TCCR4B
                     => run'.todo = <<>> /\ Configured(run.sv)')
               /\ (OCR4C' # OCR4C => OCR4C' = TopValue(run.sv.svCNT))
               /\ (OCR4A' # OCR4A => OCR4A' = CompareValue(run.sv.svCNT))]_vars

C20_StoppedBeforeRunWriteWitness ==
    /\ InSetUp
    /\ lastOk.kind = "off"
    /\ Len(run.todo) = 1
    /\ ~TimerRuns
    /\ Configured(run.sv)
    /\ run.sv.svCNT > 256


----------------------------------------------------------------------------
(* Stored value against the timer's on/off state.                         *)

CandidateFreq(pll, Freq) ==
    ActualFreq([svPLL |-> pll, svLG |-> ShiftOf(pll, Freq),
                svCNT |-> CountAt(pll, Freq), svDIF |-> 0])

TimerStopped == TCCR4B = 0 /\ pinMode5 = "INPUT_PULLUP"

TimerActive == TCCR4B # 0 /\ pinMode5 = "OUTPUT"

(* C21: a successful set(f>0) computes an actual frequency of at least 1  *)
(* (so does every candidate that passes the range checks), hence it never *)
(* takes the shut-down branch; and once set(0) or a successful set(f>0)   *)
(* has been called, the stored value is 0 exactly when the timer is       *)
(* stopped with the pin released and positive exactly when the timer runs *)
(* with the pin as output.                                                *)
C21_StoredAgreesWithTimer ==
    /\ SetSucceeded
         => /\ call.ret >= 1
            /\ TimerActive
            /\ \A pll \in Passing(call.Freq) :
                  CandidateFreq(pll, call.Freq) >= 1
    /\ lastOk.kind # "none"
         => /\ FreqGenVal >= 0
            /\ (FreqGenVal = 0 <=> TimerStopped)
            /\ (FreqGenVal > 0 <=> TimerActive)

C21_LowestFrequencyWitness ==
    /\ SetSucceeded
    /\ call.ret = 1
    /\ call.sv.svLG = MaxLg
    /\ FreqGenVal = 1
    /\ TimerActive
    /\ prev.op = "set"
    /\ prev.Freq = 0


----------------------------------------------------------------------------
(* Integer widths of the search: long is 32 bits signed, unsigned is 16   *)
(* bits.  The values below are the mathematical ones, before any wrap.    *)

QuotientAt(pll, Freq) ==
    ((ClockOf(pll) * 2) \div Pow2(ShiftOf(pll, Freq))) \div Freq

ProductAt(pll, Freq) ==
    (Pow2(ShiftOf(pll, Freq)) * CountAt(pll, Freq)) * Freq

(* C22: for every requested f > 0 and every clock source, CK * 2 fits a   *)
(* signed 32-bit value; for a source passing the shift check the quotient *)
(* CK * 2 div PS div f is at most 2047, the rounded count is at most 1024 *)
(* and is stored unchanged in its 16-bit unsigned variable, and PS is at  *)
(* most 16384; for a source passing the count check PS * count * f and    *)
(* CK - PS * count * f fit a signed 32-bit value.                         *)
C22_NoIntermediateOverflows ==
    (call.op = "set" /\ call.Freq > 0) =>
        /\ \A pll \in AllPll :
              /\ ClockOf(pll) <= LongMax \div 2
              /\ ClockOf(pll) * 2 <= LongMax
        /\ \A pll \in Checked(call.Freq) :
              /\ QuotientAt(pll, call.Freq) <= 2047
              /\ (QuotientAt(pll, call.Freq) + 1) \div 2 <= 1024
              /\ (QuotientAt(pll, call.Freq) + 1) \div 2 <= UnsignedMax
              /\ CountAt(pll, call.Freq)
                    = (QuotientAt(pll, call.Freq) + 1) \div 2
              /\ Pow2(ShiftOf(pll, call.Freq)) <= 16384
              /\ Pow2(ShiftOf(pll, call.Freq)) <= UnsignedMax
        /\ \A pll \in Passing(call.Freq) :
              /\ Pow2(ShiftOf(pll, call.Freq)) * CountAt(pll, call.Freq)
                    <= LongMax \div call.Freq
              /\ ProductAt(pll, call.Freq) <= LongMax
              /\ ClockOf(pll) - ProductAt(pll, call.Freq) <= LongMax
              /\ ClockOf(pll) - ProductAt(pll, call.Freq) >= -LongMax - 1

C22_LargestQuotientWitness ==
    /\ call.op = "set"
    /\ call.Freq > 0
    /\ \E pll \in Checked(call.Freq) :
          /\ QuotientAt(pll, call.Freq) = 2047
          /\ CountAt(pll, call.Freq) = 1024
          /\ ShiftOf(pll, call.Freq) > 0
    /\ \E pll \in Passing(call.Freq) :
          ProductAt(pll, call.Freq) > ClockOf(pll)

====
